---- MODULE Spec2Model ----
(***************************************************************************)
(* Scan-line polygon rasterizer of polygon_canvas.                         *)
(*                                                                         *)
(* A run is a small driver in the style of the repository's tests: each    *)
(* call builds its polygon with Polygon::from_vec and hands it either to   *)
(* polygon_interior (scan_line.rs, boolean mask) or to fill_polygon        *)
(* (fill_polygon.rs, colour blended into a canvas).  The sweep over the    *)
(* rows is one step per row, so the active edge table is visible at the    *)
(* moment the crossings of a row are read.                                 *)
(*                                                                         *)
(* Numbers.  A coordinate of type T is stored as an integer count of       *)
(* 1/Unit: the value s stands for s/Unit.  For the integer type ("int",    *)
(* i32 in the tests) every coordinate is a multiple of Unit.  A float      *)
(* ("float", f64) is modelled as the exact rational it denotes; f64        *)
(* rounding error is not modelled.  The x of a ScanlineEdge is the         *)
(* rational xn/den and its delta_x the rational dn/den.                    *)
(*                                                                         *)
(* The conversions of canvas.rs (Canvas to and from an image and an        *)
(* Array2) are a second specification, SpecCanvas, over their own objects. *)
(***************************************************************************)
EXTENDS Integers, Sequences, FiniteSets, TLC

\* Grid resolution of float coordinates: a unit is divided in Unit parts.
Unit == 2
\* Largest whole coordinate of the exhaustively enumerated polygons.
MaxCoord == 2
\* Longest flat coordinate vector handed to Polygon::from_vec.
MaxLen == 6

VARIABLES
    calls,   \* the driver: the calls to make, in order
    algo,    \* "interior" (polygon_interior) or "fill" (fill_polygon)
    W, H,    \* canvas width and height (CanvasSpec / RgbaImage dimensions)
    ci,      \* index of the current call
    pc,      \* position of the driver
    poly,    \* result of Polygon::from_vec for the current call
    net,     \* New Edge Table of the current call
    aet,     \* Active Edge Table of the current call
    row,     \* loop variable of the sweep
    mask,    \* the mask polygon_interior is building
    returned,\* the masks polygon_interior has returned, one per call
    canvas,  \* canvas[k]: the image fill_polygon blends into
    original,          \* canvas.rs: the Canvas that is converted
    image,             \* original.clone().into_image()
    canvas_from_image, \* Canvas::from_image(image)
    array,             \* original.clone().into_array2()
    canvas_from_array  \* Canvas::from_array2(array)

\* the objects of a conversion round trip of canvas.rs
conversion == <<original, image, canvas_from_image, array, canvas_from_array>>

vars == <<calls, algo, W, H, ci, pc, poly, net, aet, row, mask, returned, canvas,
          conversion>>

-----------------------------------------------------------------------------
(* nums.rs: rounding *)

\* floor and ceiling of the rational n/d, d > 0
FloorDiv(n, d) == IF n >= 0 THEN n \div d ELSE -((-n + d - 1) \div d)
CeilDiv(n, d) == IF n >= 0 THEN (n + d - 1) \div d ELSE -((-n) \div d)

\* Rust integer division truncates toward zero
TruncDiv(a, b) ==
    LET q == (IF a < 0 THEN -a ELSE a) \div (IF b < 0 THEN -b ELSE b)
    IN  IF (a < 0) = (b < 0) THEN q ELSE -q

\* Round::ceil_to_self: ceil() for floats, identity for integers
ceil_to_self(typ, s) ==
    IF typ = "int" THEN s ELSE Unit * CeilDiv(s, Unit)

\* Round::floor_to_self
floor_to_self(typ, s) ==
    IF typ = "int" THEN s ELSE Unit * FloorDiv(s, Unit)

\* `as usize` of a non-negative whole value
as_usize(s) == IF s < 0 THEN 0 ELSE s \div Unit

ceil_to_usize(typ, s) == as_usize(ceil_to_self(typ, s))
floor_to_usize(typ, s) == as_usize(floor_to_self(typ, s))

-----------------------------------------------------------------------------
(* geometry *)

Point(x, y) == [x |-> x, y |-> y]
Line(start, end) == [start |-> start, end |-> end]

NoPolygon == [some |-> FALSE, vertices |-> <<>>]

\* mutant of from_vec: an odd trailing coordinate is dropped, not rejected
from_vec_lenient(v) ==
    [some |-> TRUE,
     vertices |-> [i \in 1..(Len(v) \div 2) |-> Point(v[2 * i - 1], v[2 * i])]]

\* Polygon::from_vec
from_vec(v) ==
    IF Len(v) % 2 # 0
    THEN NoPolygon
    ELSE [some |-> TRUE,
          vertices |-> [i \in 1..(Len(v) \div 2) |-> Point(v[2 * i - 1], v[2 * i])]]

\* mutant of edges: the closing edge from the last vertex to the first is left out
edges_open(vs) ==
    [i \in 1..(Len(vs) - 1) |-> Line(vs[i], vs[i + 1])]

\* Polygon::edges: vertex i paired with vertex i+1, cyclically
edges(vs) ==
    [i \in 1..Len(vs) |-> Line(vs[i], vs[(i % Len(vs)) + 1])]

y_min_point(line) == IF line.start.y <= line.end.y THEN line.start ELSE line.end
y_max_point(line) == IF line.start.y >= line.end.y THEN line.start ELSE line.end

None == [some |-> FALSE]

\* Line::inv_slope, computed in T: a rational num/den for floats, the
\* truncated quotient for integers.
inv_slope(typ, line) ==
    LET dx == line.end.x - line.start.x
        dy == line.end.y - line.start.y
    IN  IF dy = 0 THEN None
        ELSE IF typ = "int"
             THEN [some |-> TRUE, num |-> TruncDiv(dx \div Unit, dy \div Unit), den |-> 1]
             ELSE [some |-> TRUE,
                   num |-> IF dy < 0 THEN -dx ELSE dx,
                   den |-> IF dy < 0 THEN -dy ELSE dy]

-----------------------------------------------------------------------------
(* ScanlineEdge and the New Edge Table (identical in scan_line.rs and      *)
(* fill_polygon.rs but for the direction field: `is_upwards: bool` in      *)
(* scan_line.rs is direction = 1 here)                                     *)

\* ScanlineEdge::from_line.  x = xn/den, delta_x = dn/den.
from_line(typ, line) ==
    LET s == inv_slope(typ, line)
        ymax == y_max_point(line).y
        pmin == y_min_point(line)
    IN  IF ~s.some THEN None
        ELSE IF ceil_to_usize(typ, ymax) = ceil_to_usize(typ, pmin.y) THEN None
        ELSE [some |-> TRUE,
              y_max |-> floor_to_usize(typ, ymax),
              xn |-> pmin.x * s.den + (ceil_to_self(typ, pmin.y) - pmin.y) * s.num,
              den |-> Unit * s.den,
              dn |-> s.num * Unit,
              direction |-> IF line.start.y < line.end.y THEN 1 ELSE -1]

\* the fields of a ScanlineEdge, without the Option wrapper
Unwrap(e) == [y_max |-> e.y_max, xn |-> e.xn, den |-> e.den, dn |-> e.dn,
              direction |-> e.direction]

\* net_from_polygon: the entries in edge order, each under its key
\* ceil(min y); net.get(row) selects the entries of a row in that order.
net_from_polygon(typ, vs) ==
    LET es == edges(vs)
        entry(i) == [key |-> ceil_to_usize(typ, y_min_point(es[i]).y),
                     edge |-> Unwrap(from_line(typ, es[i])),
                     src |-> i]
        kept == SelectSeq([i \in 1..Len(es) |-> i],
                          LAMBDA i : from_line(typ, es[i]).some)
    IN  [j \in 1..Len(kept) |-> entry(kept[j])]

net_get(n, r) ==
    LET hit == SelectSeq(n, LAMBDA en : en.key = r)
    IN  [j \in 1..Len(hit) |-> hit[j].edge]

\* ScanlineEdge::shift_down
shift_down(e) == [e EXCEPT !.xn = e.dn + e.xn]

\* mutant of check: NonZero tests n > 0
check_positive(rule, n) ==
    IF rule = "NonZero" THEN n > 0 ELSE n % 2 # 0

\* FillRule::check
check(rule, n) ==
    IF rule = "NonZero" THEN n # 0 ELSE n % 2 # 0

\* a.0.partial_cmp(&b.0) on the intersections <<xn, den, contribution>>
XLess(a, b) == a.xn * b.den < b.xn * a.den
XEq(a, b) == a.xn * b.den = b.xn * a.den

\* slice::sort_by (stable): insertion keeps equal elements in input order
RECURSIVE sort_by(_)
sort_by(s) ==
    IF Len(s) <= 1 THEN s
    ELSE LET last == s[Len(s)]
             init == sort_by(SubSeq(s, 1, Len(s) - 1))
             k == Cardinality({i \in 1..Len(init) : ~XLess(last, init[i])})
         IN  SubSeq(init, 1, k) \o <<last>> \o SubSeq(init, k + 1, Len(init))

\* itertools sorted_unstable_by: any arrangement in non-decreasing x
sorted_unstable_by(s) ==
    {t \in {[i \in 1..Len(s) |-> s[p[i]]] : p \in Permutations(1..Len(s))} :
        \A i \in 1..(Len(t) - 1) : ~XLess(t[i + 1], t[i])}

-----------------------------------------------------------------------------
(* scan_line.rs: polygon_interior *)

Cells(w, h) == (0..(h - 1)) \X (0..(w - 1))

\* scan_line.rs ScanlineEdge::get_intersect
get_intersect_mask(e, rule) ==
    IF rule = "NonZero"
    THEN [xn |-> e.xn, den |-> e.den, up |-> TRUE]
    ELSE [xn |-> e.xn, den |-> e.den, up |-> e.direction = 1]

\* the body of polygon_interior's row loop up to the `continue`:
\* advance, merge the row's new edges, retain y_max >= row
interior_aet(a, n, r) ==
    SelectSeq([i \in 1..Len(a) |-> shift_down(a[i])] \o net_get(n, r),
              LAMBDA l : l.y_max >= r)

interior_points(a, rule) ==
    sort_by([i \in 1..Len(a) |-> get_intersect_mask(a[i], rule)])

\* the `while` of polygon_interior: consume the points with x <= col
RECURSIVE consume(_, _, _, _)
consume(points, idx, track, col) ==
    IF idx <= Len(points) /\ col * points[idx].den >= points[idx].xn
    THEN consume(points, idx + 1,
                 track + ((IF points[idx].up THEN 1 ELSE 0) * 2 - 1), col)
    ELSE [idx |-> idx, track |-> track]

\* mutant of interior_cols: `for col in 0..=spec.x`
interior_cols_inclusive(w) == 0..w

\* `for col in 0..spec.x`
interior_cols(w) == 0..(w - 1)

\* the values polygon_interior writes in one row: col -> rule.check(track)
interior_row(points, rule, cols) ==
    LET st[c \in cols] ==
            IF c = 0 THEN consume(points, 1, 0, c)
            ELSE LET prev == st[c - 1]
                 IN  consume(points, prev.idx, prev.track, c)
    IN  [c \in cols |-> check(rule, st[c].track)]

-----------------------------------------------------------------------------
(* fill_polygon.rs: fill_polygon *)

\* fill_polygon.rs ScanlineEdge::get_intersect
get_intersect(e, rule) ==
    IF rule = "NonZero"
    THEN [xn |-> e.xn, den |-> e.den, w |-> e.direction]
    ELSE [xn |-> e.xn, den |-> e.den, w |-> 1]

\* mutant of fill_aet: the retain of scan_line.rs, y_max >= row after the merge
fill_aet_inclusive(a, n, r) ==
    SelectSeq([i \in 1..Len(a) |-> shift_down(a[i])] \o net_get(n, r),
              LAMBDA l : l.y_max >= r)

\* the body of fill_polygon's row loop up to the `continue`:
\* advance, retain y_max > row, then merge the row's new edges
fill_aet(a, n, r) ==
    SelectSeq([i \in 1..Len(a) |-> shift_down(a[i])],
              LAMBDA l : l.y_max > r) \o net_get(n, r)

fill_points(a, rule) == [i \in 1..Len(a) |-> get_intersect(a[i], rule)]

\* .scan(0, ..): running total, and whether the rule holds right of the point
RECURSIVE prefix_sum(_, _)
prefix_sum(points, k) ==
    IF k = 0 THEN 0 ELSE prefix_sum(points, k - 1) + points[k].w

scan(points, rule) ==
    [k \in 1..Len(points) |->
        [xn |-> points[k].xn, den |-> points[k].den,
         inside |-> check(rule, prefix_sum(points, k))]]

\* .dedup_by(|p1, p2| p1.1 == p2.1): the first of each run of equal flags
dedup_by(s) ==
    LET keep == SelectSeq([k \in 1..Len(s) |-> k],
                          LAMBDA k : k = 1 \/ s[k].inside # s[k - 1].inside)
    IN  [j \in 1..Len(keep) |-> s[keep[j]]]

\* f64::ceil(p.0) as usize (the cast saturates at 0)
ceil_usize(p) ==
    LET c == CeilDiv(p.xn, p.den) IN IF c < 0 THEN 0 ELSE c

\* .tuples::<(_, _)>(): consecutive pairs, an odd last element is dropped
tuples(s) ==
    [j \in 1..(Len(s) \div 2) |-> [low |-> s[2 * j - 1], high |-> s[2 * j]]]

\* internal_range of one row, for one arrangement of the sorted points
internal_range(sorted, rule) ==
    LET d == dedup_by(scan(sorted, rule))
    IN  tuples([k \in 1..Len(d) |-> ceil_usize(d[k])])

\* mutant of multiply: the fill colour replaces the pixel
multiply_replace(pixel, color) == <<color>>

\* bg_color.multiply(polygon_color): a pixel is the background with the
\* sequence of colours multiplied onto it, in application order
multiply(pixel, color) == Append(pixel, color)

\* the columns `for col in low_idx..high_idx` visits over all ranges, in order
RECURSIVE range_cols(_, _)
range_cols(ranges, k) ==
    IF k > Len(ranges) THEN <<>>
    ELSE [i \in 1..(IF ranges[k].high > ranges[k].low
                    THEN ranges[k].high - ranges[k].low ELSE 0) |->
             ranges[k].low + i - 1] \o range_cols(ranges, k + 1)

\* canvas.get_pixel_mut panics on the first column outside the image;
\* the columns before it have been blended
first_bad(cols, w) ==
    LET bad == {i \in 1..Len(cols) : cols[i] >= w}
    IN  IF bad = {} THEN Len(cols) + 1 ELSE CHOOSE i \in bad : \A j \in bad : i <= j

RECURSIVE blend_cols(_, _, _, _, _)
blend_cols(img, r, cols, n, color) ==
    IF n = 0 THEN img
    ELSE LET prev == blend_cols(img, r, cols, n - 1, color)
         IN  [prev EXCEPT ![<<r, cols[n]>>] = multiply(@, color)]

-----------------------------------------------------------------------------
(* the two rasterizers as functions of their arguments, with the stable    *)
(* order for crossings of equal x                                          *)

\* fill_polygon: the AET when the crossings of row r are read
RECURSIVE fill_aet_at(_, _)
fill_aet_at(n, r) ==
    IF r = 0 THEN fill_aet(<<>>, n, 0) ELSE fill_aet(fill_aet_at(n, r - 1), n, r)

\* fill_polygon: the columns of row r inside some range
fill_row(n, rule, r) ==
    LET rs == internal_range(sort_by(fill_points(fill_aet_at(n, r), rule)), rule)
    IN  UNION {rs[k].low..(rs[k].high - 1) : k \in 1..Len(rs)}

\* fill_polygon: the pixels it blends on a w x h canvas it does not leave
fill_pixels(typ, vs, rule, w, h) ==
    LET n == net_from_polygon(typ, vs)
    IN  UNION {{<<r, c>> : c \in fill_row(n, rule, r) \cap (0..(w - 1))} :
                  r \in 0..(h - 1)}

\* polygon_interior: the AET when the crossings of row r are read
RECURSIVE interior_aet_at(_, _)
interior_aet_at(n, r) ==
    IF r = 0 THEN interior_aet(<<>>, n, 0)
    ELSE interior_aet(interior_aet_at(n, r - 1), n, r)

\* polygon_interior: the cells of the returned mask that are true
interior_pixels(typ, vs, rule, w, h) ==
    LET n == net_from_polygon(typ, vs)
        line(r) == LET a == interior_aet_at(n, r)
                   IN  IF Len(a) = 0 THEN [c \in interior_cols(w) |-> FALSE]
                       ELSE interior_row(interior_points(a, rule), rule, interior_cols(w))
    IN  UNION {{<<r, c>> : c \in {c \in interior_cols(w) : line(r)[c]}} :
                  r \in 0..(h - 1)}

-----------------------------------------------------------------------------
(* canvas.rs: Canvas and its conversions                                   *)
(*                                                                         *)
(* A usize is the pair hi, lo that stands for hi * 2^32 + lo, lo < 2^32,   *)
(* so that the `as u32` casts of into_image keep their width.  A buffer is *)
(* the sequence of its f32 values.                                         *)

usize(hi, lo) == [hi |-> hi, lo |-> lo]
is_zero(n) == n.hi = 0 /\ n.lo = 0

\* `as u32` on a usize keeps the low 32 bits; `as usize` on a u32 widens
as_u32(n) == n.lo
u32_as_usize(v) == usize(0, v)

\* the components of a pixel: R, G, B, A
Channels == 4

\* CanvasSpec::new
CanvasSpec(width, height) == [width |-> width, height |-> height]

\* rows * cols = n, for shapes whose product is n or exceeds every buffer
\* that is modelled
shape_len_is(rows, cols, n) ==
    IF is_zero(rows) \/ is_zero(cols) THEN n = 0
    ELSE rows.hi = 0 /\ cols.hi = 0 /\ rows.lo * cols.lo = n

\* Canvas::from_spec, for the specs whose buffer is small enough to model
from_spec(spec) ==
    [buff |-> [i \in 1..(IF is_zero(spec.width) \/ is_zero(spec.height) THEN 0
                         ELSE spec.width.lo * spec.height.lo * Channels) |-> 0],
     spec |-> spec]

\* Rgba32FImage::from_raw: None when the container is too small for the
\* dimensions, a larger one is accepted
from_raw(width, height, buf) ==
    IF Len(buf) >= width * height * Channels
    THEN [some |-> TRUE, width |-> width, height |-> height, raw |-> buf]
    ELSE None

\* Canvas::into_image, before the unwrap
into_image(cv) ==
    from_raw(as_u32(cv.spec.width), as_u32(cv.spec.height), cv.buff)

\* Canvas::from_image
from_image(img) ==
    [buff |-> img.raw,
     spec |-> CanvasSpec(u32_as_usize(img.width), u32_as_usize(img.height))]

\* palette components_into: consecutive groups of four values become colours
components_into(buff) ==
    [k \in 1..(Len(buff) \div Channels) |->
        [red |-> buff[Channels * k - 3], green |-> buff[Channels * k - 2],
         blue |-> buff[Channels * k - 1], alpha |-> buff[Channels * k]]]

\* palette into_components: the colours flattened back, four values each
into_components(colors) ==
    [i \in 1..(Len(colors) * Channels) |->
        LET px == colors[((i - 1) \div Channels) + 1]
            ch == (i - 1) % Channels
        IN  IF ch = 0 THEN px.red ELSE IF ch = 1 THEN px.green
            ELSE IF ch = 2 THEN px.blue ELSE px.alpha]

\* Array2::from_shape_vec((rows, cols), v): an error unless v has rows * cols
\* elements; the array is in standard (row major) layout
from_shape_vec(rows, cols, v) ==
    IF shape_len_is(rows, cols, Len(v))
    THEN [some |-> TRUE, dim |-> <<rows, cols>>, raw_vec |-> v]
    ELSE None

\* Canvas::into_array2, before the unwrap
into_array2(cv) ==
    from_shape_vec(cv.spec.height, cv.spec.width, components_into(cv.buff))

\* Canvas::from_array2 of an array in standard layout
from_array2(arr) ==
    [buff |-> into_components(arr.raw_vec),
     spec |-> [width |-> arr.dim[2], height |-> arr.dim[1]]]

\* no conversion is in progress
NotConverting ==
    /\ original = None
    /\ image = None
    /\ canvas_from_image = None
    /\ array = None
    /\ canvas_from_array = None

-----------------------------------------------------------------------------
(* the driver's inputs *)

Rules == {"NonZero", "EvenOdd"}
Types == {"int", "float"}

Call(v, typ, rule, color, cv) ==
    [v |-> v, typ |-> typ, rule |-> rule, color |-> color, cv |-> cv]

\* whole coordinates 0..MaxCoord, valid in both coordinate types
GridVals == {k * Unit : k \in 0..MaxCoord}
\* every flat vector of up to MaxLen whole coordinates
GridVecs == UNION {[1..n -> GridVals] : n \in 0..MaxLen}
EvenVecs == {v \in GridVecs : Len(v) % 2 = 0}
OddVecs == GridVecs \ EvenVecs

\* the canvas that contains every enumerated polygon
Side == MaxCoord + 1

\* axis-aligned rectangles (x0,y0),(x1,y0),(x1,y1),(x0,y1) inside that canvas
Rect(x0, y0, x1, y1) ==
    <<x0 * Unit, y0 * Unit, x1 * Unit, y0 * Unit,
      x1 * Unit, y1 * Unit, x0 * Unit, y1 * Unit>>
RectVecs ==
    {Rect(q[1], q[2], q[3], q[4]) :
        q \in {q \in (0..Side) \X (0..Side) \X (0..Side) \X (0..Side) :
                  q[1] < q[3] /\ q[2] < q[4]}}

\* quadrilaterals on the corners of the grid, self-intersecting ones included
CornerVals == {0, MaxCoord * Unit}
CornerQuads == [1..8 -> CornerVals]

\* float triangles with vertices off the integer rows
FracPoints ==
    {<<x, y>> : x \in {0, MaxCoord * Unit}, y \in {1, Unit + 1}}
        \cup {<<Unit, 0>>, <<Unit, MaxCoord * Unit>>}
FracVecs ==
    {<<a[1], a[2], b[1], b[2], c[1], c[2]>> : a, b, c \in FracPoints}

\* polygons whose first vertex is the origin
AnchoredVecs == {v \in EvenVecs : Len(v) >= 2 => (v[1] = 0 /\ v[2] = 0)}

WholeVecs == EvenVecs \cup RectVecs \cup CornerQuads
SideVecs == AnchoredVecs \cup RectVecs \cup CornerQuads

\* the second polygon of a compositing run
OverVecs == {Rect(1, 0, Side, Side), <<0, 0, MaxCoord * Unit, MaxCoord * Unit, 0, MaxCoord * Unit>>}

Algos == {"interior", "fill"}

Script(cs, al, w, h) == [calls |-> cs, algo |-> al, W |-> w, H |-> h]

\* the same call twice, the second into an independent canvas
Twice(v, typ, rule) == <<Call(v, typ, rule, "c1", 1), Call(v, typ, rule, "c1", 2)>>

\* two fills composited on one canvas
Over(v, u, typ, rule) == <<Call(v, typ, rule, "c1", 1), Call(u, typ, rule, "c2", 1)>>

\* the polygons and canvases of the repository's tests (whole coordinates)
Whole(v) == [i \in DOMAIN v |-> v[i] * Unit]
SquareFill == Whole(<<0, 0, 8, 0, 8, 10, 0, 10>>)
TriangleFill == Whole(<<0, 0, 8, 0, 8, 10>>)
SelfIntersecting == Whole(<<0, 0, 20, 0, 3, 15, 13, 3, 8, 3, 18, 15>>)
SquareLeft == Whole(<<0, 0, 20, 0, 20, 10, 0, 10>>)
SquareRight == Whole(<<10, 0, 30, 0, 30, 10, 0, 10>>)
SquareMask == Whole(<<0, 0, 7, 0, 7, 9, 0, 9>>)
TriangleMask == Whole(<<0, 0, 7, 0, 7, 9>>)
TestVecs == {SquareFill, TriangleFill, SelfIntersecting, SquareMask, TriangleMask}
\* empty_image() of fill_polygon.rs and the CanvasSpec of scan_line.rs
EmptyImage == <<30, 20>>
SmallSpec == <<8, 10>>

Blank(w, h) == [c \in Cells(w, h) |-> <<>>]

\* the state before the driver's first step
Setup(s) ==
    /\ calls = s.calls
    /\ algo = s.algo
    /\ W = s.W
    /\ H = s.H
    /\ canvas = [k \in 1..2 |-> Blank(s.W, s.H)]
    /\ ci = 1
    /\ pc = "parse"
    /\ poly = NoPolygon
    /\ net = <<>>
    /\ aet = <<>>
    /\ row = 0
    /\ mask = <<>>
    /\ returned = <<>>
    /\ NotConverting

\* canvases with no pixel, and one narrower than the polygons
OddSizes == {<<0, 0>>, <<0, Side>>, <<Side, 0>>, <<1, Side>>}

Init ==
    \/ \E v \in WholeVecs, typ \in Types, rule \in Rules, al \in Algos :
          Setup(Script(Twice(v, typ, rule), al, Side, Side))
    \/ \E v \in FracVecs, rule \in Rules, al \in Algos :
          Setup(Script(Twice(v, "float", rule), al, Side, Side))
    \/ \E v \in OddVecs, al \in Algos :
          Setup(Script(<<Call(v, "float", "NonZero", "c1", 1)>>, al, Side, Side))
    \/ \E v \in SideVecs, u \in OverVecs, typ \in Types, rule \in Rules :
          Setup(Script(Over(v, u, typ, rule), "fill", Side, Side))
    \/ \E v \in SideVecs, typ \in Types, rule \in Rules, al \in Algos, sz \in OddSizes :
          Setup(Script(<<Call(v, typ, rule, "c1", 1)>>, al, sz[1], sz[2]))
    \/ \E v \in TestVecs, typ \in Types, rule \in Rules, al \in Algos,
          sz \in {EmptyImage, SmallSpec} :
          Setup(Script(Twice(v, typ, rule), al, sz[1], sz[2]))
    \/ \E typ \in Types, rule \in Rules :
          Setup(Script(<<Call(SquareLeft, typ, rule, "c1", 1),
                         Call(SquareRight, typ, rule, "c2", 1)>>,
                       "fill", EmptyImage[1], EmptyImage[2]))

-----------------------------------------------------------------------------
(* the driver's steps *)

cur == calls[ci]

\* Polygon::from_vec(..); the driver stops when it gets None
FromVec ==
    /\ pc = "parse"
    /\ poly' = from_vec(cur.v)
    /\ pc' = IF poly'.some THEN "call" ELSE "rejected"
    /\ UNCHANGED <<calls, algo, W, H, ci, net, aet, row, mask, returned, canvas>>
    /\ UNCHANGED conversion

\* polygon_interior up to the row loop
PolygonInteriorEnter ==
    /\ pc = "call"
    /\ algo = "interior"
    /\ mask' = [c \in Cells(W, H) |-> FALSE]
    /\ net' = net_from_polygon(cur.typ, poly.vertices)
    /\ aet' = <<>>
    /\ row' = 0
    /\ pc' = "sweep"
    /\ UNCHANGED <<calls, algo, W, H, ci, poly, returned, canvas>>
    /\ UNCHANGED conversion

\* one iteration of `for row in 0..spec.y`
PolygonInteriorRow ==
    /\ pc = "sweep"
    /\ algo = "interior"
    /\ row < H
    /\ LET a == interior_aet(aet, net, row)
           vals == interior_row(interior_points(a, cur.rule), cur.rule, interior_cols(W))
       IN  /\ aet' = a
           /\ IF Len(a) = 0
              THEN /\ mask' = mask
                   /\ pc' = pc
                   /\ row' = row + 1
              ELSE IF \E c \in interior_cols(W) : <<row, c>> \notin DOMAIN mask
              THEN \* ndarray indexing out of bounds
                   /\ mask' = mask
                   /\ pc' = "panicked"
                   /\ row' = row
              ELSE /\ mask' = [c \in DOMAIN mask |->
                                  IF c[1] = row THEN vals[c[2]] ELSE mask[c]]
                   /\ pc' = pc
                   /\ row' = row + 1
    /\ UNCHANGED <<calls, algo, W, H, ci, poly, net, returned, canvas>>
    /\ UNCHANGED conversion

\* the driver after a call returned
Next_pc == IF ci < Len(calls) THEN "parse" ELSE "done"
Next_ci == IF ci < Len(calls) THEN ci + 1 ELSE ci

\* `return mask`
PolygonInteriorReturn ==
    /\ pc = "sweep"
    /\ algo = "interior"
    /\ row = H
    /\ returned' = Append(returned, mask)
    /\ pc' = Next_pc
    /\ ci' = Next_ci
    /\ UNCHANGED <<calls, algo, W, H, poly, net, aet, row, mask, canvas>>
    /\ UNCHANGED conversion

\* fill_polygon up to the row loop
FillPolygonEnter ==
    /\ pc = "call"
    /\ algo = "fill"
    /\ net' = net_from_polygon(cur.typ, poly.vertices)
    /\ aet' = <<>>
    /\ row' = 0
    /\ pc' = "sweep"
    /\ UNCHANGED <<calls, algo, W, H, ci, poly, mask, returned, canvas>>
    /\ UNCHANGED conversion

\* one iteration of `for row in 0..height`
FillPolygonRow ==
    /\ pc = "sweep"
    /\ algo = "fill"
    /\ row < H
    /\ LET a == fill_aet(aet, net, row)
       IN  /\ aet' = a
           /\ IF Len(a) = 0
              THEN /\ canvas' = canvas
                   /\ pc' = pc
                   /\ row' = row + 1
              ELSE \E sorted \in sorted_unstable_by(fill_points(a, cur.rule)) :
                     LET cols == range_cols(internal_range(sorted, cur.rule), 1)
                         stop == first_bad(cols, W)
                     IN  /\ canvas' = [canvas EXCEPT ![cur.cv] =
                                          blend_cols(@, row, cols, stop - 1, cur.color)]
                         /\ pc' = IF stop <= Len(cols) THEN "panicked" ELSE pc
                         /\ row' = IF stop <= Len(cols) THEN row ELSE row + 1
    /\ UNCHANGED <<calls, algo, W, H, ci, poly, net, mask, returned>>
    /\ UNCHANGED conversion

\* fill_polygon returns
FillPolygonReturn ==
    /\ pc = "sweep"
    /\ algo = "fill"
    /\ row = H
    /\ pc' = Next_pc
    /\ ci' = Next_ci
    /\ UNCHANGED <<calls, algo, W, H, poly, net, aet, row, mask, returned, canvas>>
    /\ UNCHANGED conversion

Next ==
    \/ FromVec
    \/ PolygonInteriorEnter
    \/ PolygonInteriorRow
    \/ PolygonInteriorReturn
    \/ FillPolygonEnter
    \/ FillPolygonRow
    \/ FillPolygonReturn

Spec == Init /\ [][Next]_vars

-----------------------------------------------------------------------------
(* vocabulary of the properties *)

\* the driver runs one call twice, into independent canvases
IsTwice == Len(calls) = 2 /\ calls[2].cv = 2 /\ calls[2].v = calls[1].v
\* the driver composites two fills on canvas 1
IsOver == Len(calls) = 2 /\ calls[2].cv = 1

Vertices(v) == from_vec(v).vertices

\* the pixels of an image that are no longer the background
Blended(img) == {c \in DOMAIN img : img[c] # <<>>}
\* the true cells of a mask
TrueCells(m) == {c \in DOMAIN m : m[c]}

\* the rows of the current call that the sweep has finished
RowsDone == IF pc = "sweep" \/ pc = "panicked" THEN 0..(row - 1) ELSE {}

-----------------------------------------------------------------------------
(* C1 *)

\* C1: on the 30x20 canvas, fill_polygon of the self-intersecting polygon
\* (0,0),(20,0),(3,15),(13,3),(8,3),(18,15) blends pixel (row 7, col 10)
\* under NonZero and leaves it unchanged under EvenOdd.
C1_SelfOverlapByRule ==
    (/\ pc = "done"
     /\ algo = "fill"
     /\ IsTwice
     /\ calls[1].v = SelfIntersecting
     /\ <<W, H>> = EmptyImage)
    => /\ calls[1].rule = "NonZero" => canvas[1][<<7, 10>>] = <<calls[1].color>>
       /\ calls[1].rule = "EvenOdd" => canvas[1][<<7, 10>>] = <<>>

-----------------------------------------------------------------------------
(* C2 *)

\* twice the signed area of the triangle a, b, p
Cross(a, b, px, py) == (b.x - a.x) * (py - a.y) - (b.y - a.y) * (px - a.x)

\* strictly convex: every turn of the boundary has the same strict sign
\* (sufficient for the polygons of up to four vertices enumerated here)
Convex(vs) ==
    /\ Len(vs) \in {3, 4}
    /\ \E sg \in {-1, 1} :
          \A i \in 1..Len(vs) :
              LET b == vs[(i % Len(vs)) + 1]
                  c == vs[((i + 1) % Len(vs)) + 1]
              IN  sg * Cross(vs[i], b, c.x, c.y) > 0

\* the centre (col + 0.5, row + 0.5) lies strictly inside the convex
\* polygon; coordinates are doubled to stay whole
CentreInside(vs, r, c) ==
    \E sg \in {-1, 1} :
        \A i \in 1..Len(vs) :
            LET a == [x |-> 2 * vs[i].x, y |-> 2 * vs[i].y]
                b == [x |-> 2 * vs[(i % Len(vs)) + 1].x, y |-> 2 * vs[(i % Len(vs)) + 1].y]
            IN  sg * Cross(a, b, (2 * c + 1) * Unit, (2 * r + 1) * Unit) > 0

\* every coordinate is non-negative and within the canvas
Contained(vs) ==
    \A i \in 1..Len(vs) :
        /\ 0 <= vs[i].x /\ vs[i].x <= W * Unit
        /\ 0 <= vs[i].y /\ vs[i].y <= H * Unit

\* C2: for a convex polygon with non-negative coordinates contained in the
\* canvas, under both rules, every pixel whose centre lies strictly inside
\* the boundary is marked by polygon_interior and blended by fill_polygon.
C2_CentresMarked ==
    (/\ pc = "done"
     /\ Convex(Vertices(calls[1].v))
     /\ Contained(Vertices(calls[1].v)))
    => \A cell \in Cells(W, H) :
          CentreInside(Vertices(calls[1].v), cell[1], cell[2]) =>
              /\ algo = "interior" => returned[1][cell]
              /\ algo = "fill" => canvas[1][cell] # <<>>

-----------------------------------------------------------------------------
(* C3 *)

\* v is (x0,y0),(x1,y0),(x1,y1),(x0,y1) with whole corners,
\* 0 <= x0 < x1 <= W and 0 <= y0 < y1 <= H
IsRect(v) ==
    /\ Len(v) = 8
    /\ v = Rect(v[1] \div Unit, v[2] \div Unit, v[5] \div Unit, v[6] \div Unit)
    /\ 0 <= v[1] /\ v[1] < v[5] /\ v[5] <= W * Unit
    /\ 0 <= v[2] /\ v[2] < v[6] /\ v[6] <= H * Unit

InRect(v, cell) ==
    /\ v[2] <= cell[1] * Unit /\ cell[1] * Unit < v[6]
    /\ v[1] <= cell[2] * Unit /\ cell[2] * Unit < v[5]

\* C3: fill_polygon of an axis-aligned rectangle with whole corners inside
\* the canvas, under either rule, blends exactly the pixels with
\* y0 <= row < y1 and x0 <= col < x1, once, and changes no other pixel.
C3_RectangleExact ==
    (algo = "fill" /\ IsTwice /\ IsRect(calls[1].v)) =>
        /\ pc # "panicked"
        /\ pc = "done" =>
              \A cell \in Cells(W, H) :
                  canvas[1][cell] =
                      IF InRect(calls[1].v, cell) THEN <<calls[1].color>> ELSE <<>>

\* the square (0,0),(8,0),(8,10),(0,10) has been filled under NonZero
\* into the 8x10 canvas
C3_Witness ==
    /\ pc = "done"
    /\ algo = "fill"
    /\ calls[1].v = SquareFill
    /\ calls[1].rule = "NonZero"
    /\ <<W, H>> = SmallSpec
    /\ canvas[1][<<9, 7>>] = <<"c1">>

-----------------------------------------------------------------------------
(* C4 *)

\* the cell lies in the bounding box of the vertices
InBox(vs, cell) ==
    /\ \E i \in 1..Len(vs) : vs[i].x <= cell[2] * Unit
    /\ \E i \in 1..Len(vs) : vs[i].x >= cell[2] * Unit
    /\ \E i \in 1..Len(vs) : vs[i].y <= cell[1] * Unit
    /\ \E i \in 1..Len(vs) : vs[i].y >= cell[1] * Unit

\* C4: for a polygon with non-negative coordinates contained in the canvas,
\* under either rule, neither polygon_interior nor fill_polygon marks a
\* pixel outside the bounding box of the vertices; the right triangle
\* (0,0),(8,0),(8,10) leaves pixel (row 9, col 0) unmarked.
C4_NoExtraCoverage ==
    (pc = "done" /\ IsTwice /\ Contained(Vertices(calls[1].v))) =>
        /\ algo = "interior" =>
              \A cell \in TrueCells(returned[1]) : InBox(Vertices(calls[1].v), cell)
        /\ algo = "fill" =>
              \A cell \in Blended(canvas[1]) : InBox(Vertices(calls[1].v), cell)
        /\ (algo = "fill" /\ calls[1].v = TriangleFill) => canvas[1][<<9, 0>>] = <<>>

-----------------------------------------------------------------------------
(* C5 *)

\* C5: fill_polygon never addresses a pixel outside the canvas, whatever
\* the polygon and the rule: the call completes without an out-of-bounds
\* error.
C5_FillStaysInCanvas ==
    algo = "fill" => pc # "panicked"

-----------------------------------------------------------------------------
(* C6 *)

\* the edge tables agree entry by entry: key, last row, x and delta_x
SameNet(n, m) ==
    /\ Len(n) = Len(m)
    /\ \A j \in 1..Len(n) :
          /\ n[j].src = m[j].src
          /\ n[j].key = m[j].key
          /\ n[j].edge.y_max = m[j].edge.y_max
          /\ n[j].edge.xn * m[j].edge.den = m[j].edge.xn * n[j].edge.den
          /\ n[j].edge.dn * m[j].edge.den = m[j].edge.dn * n[j].edge.den

\* C6: for a polygon with whole non-negative coordinates, the integer and
\* the floating coordinate type give the same marked pixels in every row,
\* under both rules, in polygon_interior and in fill_polygon, and the same
\* slope, start row, last row and x-intercept for every edge.
C6_SameAcrossTypes ==
    (calls[1].typ = "int" /\ IsTwice) =>
        /\ (pc = "sweep" /\ ci = 1) =>
              SameNet(net, net_from_polygon("float", poly.vertices))
        /\ (pc = "done" /\ algo = "fill") =>
              Blended(canvas[1]) =
                  fill_pixels("float", Vertices(calls[1].v), calls[1].rule, W, H)
        /\ (pc = "done" /\ algo = "interior") =>
              TrueCells(returned[1]) =
                  interior_pixels("float", Vertices(calls[1].v), calls[1].rule, W, H)

-----------------------------------------------------------------------------
(* C7 *)

\* C7: Polygon::from_vec(v) is None exactly when v has odd length; for an
\* even length 2N it is a polygon of N vertices, vertex i being
\* (v[2i], v[2i+1]) counted from 0, in input order.
C7_FromVec ==
    pc # "parse" =>
        /\ poly.some <=> Len(cur.v) % 2 = 0
        /\ pc = "rejected" <=> ~poly.some
        /\ poly.some =>
            /\ Len(poly.vertices) * 2 = Len(cur.v)
            /\ \A i \in 0..(Len(poly.vertices) - 1) :
                  /\ poly.vertices[i + 1].x = cur.v[2 * i + 1]
                  /\ poly.vertices[i + 1].y = cur.v[2 * i + 1 + 1]

\* an odd-length vector has been rejected
C7_Witness ==
    /\ pc = "rejected"
    /\ Len(cur.v) = 5
    /\ ~poly.some

-----------------------------------------------------------------------------
(* C8 *)

\* C8: polygon_interior on a canvas of width 0 or height 0 returns a mask
\* of the canvas' shape with no true cell, for every polygon and rule, and
\* without an out-of-range access.
C8_EmptyCanvas ==
    (algo = "interior" /\ (W = 0 \/ H = 0)) =>
        /\ pc # "panicked"
        /\ TrueCells(mask) = {}
        /\ \A i \in 1..Len(returned) :
              /\ DOMAIN returned[i] = Cells(W, H)
              /\ TrueCells(returned[i]) = {}

\* a sweep over the rows of a canvas of width 0 met active edges and returned
C8_Witness ==
    /\ algo = "interior"
    /\ W = 0
    /\ H > 0
    /\ pc = "done"
    /\ Len(returned) = 1
    /\ Len(net) >= 2

-----------------------------------------------------------------------------
(* C9 *)

\* what a pixel holds after fills of colour c1 over the pixels A and then
\* colour c2 over the pixels B
Composite(cell, A, c1, B, c2) ==
    (IF cell \in A THEN <<c1>> ELSE <<>>) \o (IF cell \in B THEN <<c2>> ELSE <<>>)

\* C9: after fill_polygon(canvas, A, c1) and then fill_polygon(canvas, B, c2)
\* a pixel covered by both holds multiply(multiply(bg, c1), c2), one covered
\* only by A multiply(bg, c1), only by B multiply(bg, c2), by neither bg.
C9_SequentialCompositing ==
    (pc = "done" /\ algo = "fill" /\ IsOver) =>
        LET A == fill_pixels(calls[1].typ, Vertices(calls[1].v), calls[1].rule, W, H)
            B == fill_pixels(calls[2].typ, Vertices(calls[2].v), calls[2].rule, W, H)
        IN  \A cell \in Cells(W, H) :
                canvas[1][cell] = Composite(cell, A, calls[1].color, B, calls[2].color)

\* test_blending: pixel (row 5, col 15) after the left and the right square
C9_Witness ==
    /\ pc = "done"
    /\ algo = "fill"
    /\ IsOver
    /\ calls[1].v = SquareLeft
    /\ calls[2].v = SquareRight
    /\ canvas[1][<<5, 15>>] = <<"c1", "c2">>
    /\ canvas[1][<<5, 25>>] = <<"c2">>
    /\ canvas[1][<<15, 15>>] = <<>>

-----------------------------------------------------------------------------
(* C10 *)

\* C10: rasterizing the same polygon with the same rule into two
\* independent canvases of the same size gives identical masks, whatever
\* order the sort gives to crossings of equal x: row by row the second
\* run repeats the first.
C10_SameTwice ==
    (IsTwice /\ (ci = 2 \/ pc = "done")) =>
        /\ (algo = "fill" /\ pc = "done") => canvas[2] = canvas[1]
        /\ (algo = "interior" /\ pc = "done") => returned[2] = returned[1]
        /\ (algo = "fill" /\ pc # "done") =>
              \A cell \in Cells(W, H) :
                  canvas[2][cell] = IF cell[1] \in RowsDone THEN canvas[1][cell] ELSE <<>>
        /\ (algo = "interior" /\ pc = "sweep") =>
              \A cell \in Cells(W, H) :
                  mask[cell] = IF cell[1] \in RowsDone THEN returned[1][cell] ELSE FALSE

\* the second run has just read a row with two crossings of equal x and
\* opposite direction under NonZero
C10_Witness ==
    /\ IsTwice
    /\ ci = 2
    /\ pc = "sweep"
    /\ algo = "fill"
    /\ calls[2].rule = "NonZero"
    /\ row >= 1
    /\ \E i, j \in 1..Len(aet) :
          /\ XEq(aet[i], aet[j])
          /\ aet[i].direction = 1
          /\ aet[j].direction = -1

-----------------------------------------------------------------------------
(* C12 *)

\* the x a ScanlineEdge has after k calls of shift_down
advanced(e, k) == [e EXCEPT !.xn = e.xn + k * e.dn]

\* the NET entries that are active in row r when every row advances, merges
\* and then retires the edges with y_max < r: key <= r <= y_max
ActiveThrough(n, r) == {j \in 1..Len(n) : n[j].key <= r /\ r <= n[j].edge.y_max}

\* C12: in every row both rasterizers advance the active edges, merge the
\* row's NET edges and only then retire the edges with y_max < row, so the
\* edge of a NET entry keyed at row k is in the AET on exactly the rows
\* k..min(y_max, height - 1), its y_max row included.
C12_ActiveThroughYMax ==
    (pc = "sweep" /\ row >= 1) =>
        LET r == row - 1
            act == ActiveThrough(net, r)
        IN  /\ Len(aet) = Cardinality(act)
            /\ {aet[i] : i \in 1..Len(aet)} =
                   {advanced(net[j].edge, r - net[j].key) : j \in act}

-----------------------------------------------------------------------------
(* C13 *)

\* the active edges whose x-intercept is <= col
LeftOf(a, col) == {i \in 1..Len(a) : a[i].xn <= col * a[i].den}

\* the sum of the directions of the edges a[i], i in S
RECURSIVE DirectionSum(_, _)
DirectionSum(a, S) ==
    IF S = {} THEN 0
    ELSE LET i == CHOOSE i \in S : TRUE
         IN  a[i].direction + DirectionSum(a, S \ {i})

\* C13: polygon_interior sets mask[row, col] to true exactly when, over the
\* edges active in the row whose x-intercept is <= col, the sum of the
\* directions is non-zero (NonZero) or the number of edges is odd (EvenOdd).
C13_MaskByWinding ==
    (pc = "sweep" /\ algo = "interior" /\ row >= 1) =>
        \A col \in interior_cols(W) :
            mask[<<row - 1, col>>] =
                IF cur.rule = "NonZero"
                THEN DirectionSum(aet, LeftOf(aet, col)) # 0
                ELSE Cardinality(LeftOf(aet, col)) % 2 = 1

-----------------------------------------------------------------------------
(* C14 *)

\* the smaller and the larger y of the two ends of cyclic edge i
EdgeMinY(vs, i) ==
    LET a == vs[i].y
        b == vs[(i % Len(vs)) + 1].y
    IN  IF a <= b THEN a ELSE b
EdgeMaxY(vs, i) ==
    LET a == vs[i].y
        b == vs[(i % Len(vs)) + 1].y
    IN  IF a >= b THEN a ELSE b

\* the cyclic edges that belong in the table: not horizontal, and the two
\* ends not on the same ceiling row
TableEdges(vs) ==
    {i \in 1..Len(vs) :
        /\ vs[i].y # vs[(i % Len(vs)) + 1].y
        /\ CeilDiv(EdgeMinY(vs, i), Unit) # CeilDiv(EdgeMaxY(vs, i), Unit)}

\* C14: the NET holds exactly one ScanlineEdge for each cyclic edge
\* (v_i, v_(i+1 mod n)), the closing edge included, that is not horizontal
\* and whose ends differ in ceiling row; it is stored under key ceil(min y)
\* with y_max = floor(max y) and delta_x = inv_slope.  No other edge enters.
C14_NetContents ==
    (pc = "sweep") =>
        LET vs == poly.vertices
        IN  /\ {net[j].src : j \in 1..Len(net)} = TableEdges(vs)
            /\ Len(net) = Cardinality(TableEdges(vs))
            /\ \A j \in 1..Len(net) :
                  LET i == net[j].src
                      line == Line(vs[i], vs[(i % Len(vs)) + 1])
                      s == inv_slope(cur.typ, line)
                  IN  /\ net[j].key = CeilDiv(EdgeMinY(vs, i), Unit)
                      /\ net[j].edge.y_max = FloorDiv(EdgeMaxY(vs, i), Unit)
                      /\ net[j].edge.dn * s.den = s.num * net[j].edge.den

\* a table built from a float triangle: the closing edge is in it, a slanted
\* edge with both ends on one ceiling row is not, and an entry has y_max
\* below the ceiling of its upper end
C14_Witness ==
    /\ pc = "sweep"
    /\ cur.typ = "float"
    /\ Len(poly.vertices) = 3
    /\ \E j \in 1..Len(net) : net[j].src = 3
    /\ \E i \in 1..3 : i \notin TableEdges(poly.vertices)
                       /\ poly.vertices[i].y # poly.vertices[(i % 3) + 1].y
    /\ \E j \in 1..Len(net) :
          net[j].edge.y_max < CeilDiv(EdgeMaxY(poly.vertices, net[j].src), Unit)

-----------------------------------------------------------------------------
(* C15 *)

\* the columns of the spans of one row when a span left open after the last
\* crossing is closed by the right edge of the canvas
SpanCols(sorted, rule, w) ==
    LET d == dedup_by(scan(sorted, rule))
        closed == tuples([k \in 1..Len(d) |-> ceil_usize(d[k])])
        open == IF Len(d) % 2 = 1 THEN ceil_usize(d[Len(d)])..(w - 1) ELSE {}
    IN  (UNION {closed[k].low..(closed[k].high - 1) : k \in 1..Len(closed)}
            \cup open) \cap (0..(w - 1))

\* the last crossing of a row leaves the running total satisfying the rule
OpenAtEnd(a, rule) ==
    Len(a) > 0 /\ check(rule, prefix_sum(fill_points(a, rule), Len(a)))

\* C15: in a row of fill_polygon every outside-to-inside crossing opens a
\* span that the next inside-to-outside crossing closes; a span still open
\* after the last crossing of the row is closed by the right edge of the
\* canvas, so the columns ceil(x of its opening crossing)..width-1 are blended.
C15_OpenSpanReachesEdge ==
    (pc = "sweep" /\ algo = "fill" /\ ci = 1 /\ row >= 1) =>
        \E sorted \in sorted_unstable_by(fill_points(aet, cur.rule)) :
            {c \in 0..(W - 1) : canvas[cur.cv][<<row - 1, c>>] # <<>>}
                = SpanCols(sorted, cur.rule, W)

-----------------------------------------------------------------------------
(* C16 *)

\* the edge e has the x of the segment between vertices i and i+1 at y = r:
\* x_min + (r - y_min) * (x_max - x_min) / (y_max - y_min), as a rational
OnSegment(e, vs, i, r) ==
    LET line == Line(vs[i], vs[(i % Len(vs)) + 1])
        lo == y_min_point(line)
        hi == y_max_point(line)
        dy == hi.y - lo.y
        dx == hi.x - lo.x
    IN  e.xn * dy * Unit = e.den * (lo.x * dy + (r * Unit - lo.y) * dx)

\* C16: when the crossings of row r are read, in polygon_interior and in
\* fill_polygon, every active edge is a NET edge merged at its key row
\* ceil(min y) <= r and advanced once per later row, and its x is the x of
\* its original segment at y = r (vertex coordinates are non-negative).
C16_SweepLineX ==
    (pc = "sweep" /\ row >= 1) =>
        LET r == row - 1
        IN  \A i \in 1..Len(aet) :
                \E j \in 1..Len(net) :
                    /\ net[j].key <= r
                    /\ aet[i] = advanced(net[j].edge, r - net[j].key)
                    /\ OnSegment(aet[i], poly.vertices, net[j].src, r)

-----------------------------------------------------------------------------
(* canvas.rs: the conversion round trips of test_conversion_round_trip,   *)
(* over canvases of every small size and content                          *)

\* most pixels of an enumerated canvas with content
MaxPixels == 2
\* the f32 values a buffer is filled with
Samples == {0, 1}

\* canvases with pixels: width * height <= MaxPixels
SmallSpecs ==
    {CanvasSpec(usize(0, d[1]), usize(0, d[2])) :
        d \in {d \in (0..MaxPixels) \X (0..MaxPixels) : d[1] * d[2] <= MaxPixels}}
\* canvases without pixels whose other side does not fit in 32 bits
WideSpecs ==
    UNION {{CanvasSpec(usize(1, lo), usize(0, 0)), CanvasSpec(usize(0, 0), usize(1, lo))} :
              lo \in 0..MaxPixels}

\* the rasterizer's driver is not running
Idle ==
    /\ calls = <<>>
    /\ algo = "fill"
    /\ W = 0
    /\ H = 0
    /\ canvas = [k \in 1..2 |-> Blank(0, 0)]
    /\ ci = 1
    /\ poly = NoPolygon
    /\ net = <<>>
    /\ aet = <<>>
    /\ row = 0
    /\ mask = <<>>
    /\ returned = <<>>

raster == <<calls, algo, W, H, ci, poly, net, aet, row, mask, returned, canvas>>

\* a canvas made by from_spec whose buffer was then written, as in
\* test_image_modification
InitCanvas ==
    /\ Idle
    /\ pc = "convert"
    /\ \E spec \in SmallSpecs \cup WideSpecs :
          \E content \in [DOMAIN from_spec(spec).buff -> Samples] :
              original = [from_spec(spec) EXCEPT !.buff = content]
    /\ image = None
    /\ canvas_from_image = None
    /\ array = None
    /\ canvas_from_array = None

\* let image = canvas.clone().into_image();
IntoImage ==
    /\ pc = "convert"
    /\ image = None
    /\ LET r == into_image(original)
       IN  IF r.some
           THEN image' = r /\ pc' = pc
           ELSE image' = image /\ pc' = "panicked"
    /\ UNCHANGED <<raster, original, canvas_from_image, array, canvas_from_array>>

\* let canvas_from_image = Canvas::from_image(image);
FromImage ==
    /\ pc = "convert"
    /\ image # None
    /\ canvas_from_image = None
    /\ canvas_from_image' = from_image(image)
    /\ UNCHANGED <<raster, pc, original, image, array, canvas_from_array>>

\* let array = canvas.clone().into_array2();
IntoArray2 ==
    /\ pc = "convert"
    /\ array = None
    /\ LET r == into_array2(original)
       IN  IF r.some
           THEN array' = r /\ pc' = pc
           ELSE array' = array /\ pc' = "panicked"
    /\ UNCHANGED <<raster, original, image, canvas_from_image, canvas_from_array>>

\* let canvas_from_array = Canvas::from_array2(array);
FromArray2 ==
    /\ pc = "convert"
    /\ array # None
    /\ canvas_from_array = None
    /\ canvas_from_array' = from_array2(array)
    /\ UNCHANGED <<raster, pc, original, image, canvas_from_image, array>>

NextCanvas ==
    \/ IntoImage
    \/ FromImage
    \/ IntoArray2
    \/ FromArray2

SpecCanvas == InitCanvas /\ [][NextCanvas]_vars

-----------------------------------------------------------------------------
(* C11 *)

\* the canvas has the buffer and the CanvasSpec of the original, and the
\* buffer has width * height * 4 values
SameCanvas(cv) ==
    /\ cv.buff = original.buff
    /\ cv.spec = original.spec
    /\ Len(cv.buff) % Channels = 0
    /\ shape_len_is(cv.spec.height, cv.spec.width, Len(cv.buff) \div Channels)

\* C11: for a canvas c of any width, height and content,
\* Canvas::from_image(c.into_image()) and Canvas::from_array2(c.into_array2())
\* have the buffer of c (width*height*4 values, the same value at every
\* index) and the CanvasSpec of c, and into_array2 has shape (height, width).
C11_RoundTrip ==
    /\ pc # "panicked"
    /\ canvas_from_image # None => SameCanvas(canvas_from_image)
    /\ canvas_from_array # None => SameCanvas(canvas_from_array)
    /\ array # None => array.dim = <<original.spec.height, original.spec.width>>

====
